---------------------------- MODULE Spec2Model ----------------------------
(***************************************************************************)
(* A model of ControlCollection (src/index.js): an ordered list of         *)
(* controls, value and validity aggregation over the list, and the         *)
(* validate() scatter-gather over the controls' 'validate' events.         *)
(*                                                                         *)
(* A control is an integer identity 1..NumControls; identity is what       *)
(* Array.prototype.indexOf compares.  The control objects, the event       *)
(* emitter, wait-for-event and forward-events are collaborators of the     *)
(* collection whose code is not in src/: they are modelled from the        *)
(* documented behaviour.                                                   *)
(***************************************************************************)
EXTENDS Integers, Sequences, FiniteSets, TLC

\* ------------------------------------------------------------- bounds
NumControls == 3      \* control objects that exist
MaxLen == 3           \* longest control list explored
MaxValue == 2         \* control values are 1..MaxValue
MaxCycles == 2        \* validate() cycles gathering at once, and unanswered validate() calls per control
MaxAggLen == 2        \* longest control list on which aggregation and validate() are explored
MaxFwd == 2           \* times one control is added in one behaviour

Controls == 1..NumControls
Values == 1..MaxValue
Names == {"a", "b"}

\* what JavaScript yields for a missing array element, and named()'s null
Undefined == 0
Null == -1

VARIABLES
    name,       \* this.name
    controls,   \* this.controls
    valid,      \* this.valid: "undefined" until a validate cycle sets it
    ctlName,    \* control.getName() of every control
    ctlValue,   \* control.getValue() of every control
    ctlValid,   \* control.isValid() of every control
    ctlCalls,   \* control.validate() calls not yet answered, per control
    fwd,        \* forward(control, this, proxyEvent) subscriptions, per control
    gathers,    \* the waitForAll gathers: those still listening, and those that
                \* fired since the last validate() call
    emitted,    \* the events the collection emitted during the last operation, in order
    pc,         \* position of the running handler
    last,       \* the last operation and its argument; for validate() also the
                \* control.validate() calls it made, in order, and what it returned
    ref         \* the reference sequence the same operations build

vars == <<name, controls, valid, ctlName, ctlValue, ctlValid, ctlCalls, fwd,
          gathers, emitted, pc, last, ref>>

\* ------------------------------------------------------------- arrays
\* Array.prototype.indexOf, as a 0-based index, -1 when absent
RECURSIVE IndexFrom(_, _, _)
IndexFrom(s, c, i) ==
    IF i > Len(s) THEN -1
    ELSE IF s[i] = c THEN i - 1
    ELSE IndexFrom(s, c, i + 1)

ArrayIndexOf(s, c) == IndexFrom(s, c, 1)

\* Array.prototype.unshift
UnshiftBug(s, c) == [i \in 1..(Len(s) + 1) |-> IF i = Len(s) + 1 THEN c ELSE s[i]]

Unshift(s, c) == [i \in 1..(Len(s) + 1) |-> IF i = 1 THEN c ELSE s[i - 1]]

\* Array.prototype.push
Push(s, c) == [i \in 1..(Len(s) + 1) |-> IF i = Len(s) + 1 THEN c ELSE s[i]]

\* Array.prototype.splice(index, 1), index 0-based
Splice1(s, index) ==
    [i \in 1..(Len(s) - 1) |-> IF i <= index THEN s[i] ELSE s[i + 1]]

\* ------------------------------------------------------------- accessors
getName == name

count == Len(controls)

contains(c) == ArrayIndexOf(controls, c) # -1

at(index) == IF index >= 0 /\ index < Len(controls) THEN controls[index + 1] ELSE Undefined

first == at(0)

lastControl == at(Len(controls) - 1)

indexOf(c) == ArrayIndexOf(controls, c)

RECURSIVE NamedFromBug(_, _)
NamedFromBug(n, i) ==
    IF i > Len(controls) THEN Null
    ELSE IF ctlName[controls[i]] = n /\ NamedFromBug(n, i + 1) = Null THEN controls[i]
    ELSE NamedFromBug(n, i + 1)

RECURSIVE NamedFrom(_, _)
NamedFrom(n, i) ==
    IF i > Len(controls) THEN Null
    ELSE IF ctlName[controls[i]] = n THEN controls[i]
    ELSE NamedFrom(n, i + 1)

named(n) == NamedFrom(n, 1)

\* each(callback): the (control, index) pairs the callback is invoked with
EachCalls == [i \in 1..Len(controls) |-> <<controls[i], i - 1>>]

\* ------------------------------------------------------------- list operations
\* remove(): the control list after removing `c`
RemoveBug(s, c) ==
    LET index == ArrayIndexOf(s, c)
    IN  IF index # -1 /\ index = Len(s) - 1 THEN Splice1(s, index) ELSE s

Removed(s, c) ==
    LET index == ArrayIndexOf(s, c)
    IN  IF index # -1 THEN Splice1(s, index) ELSE s


\* ------------------------------------------------------------- value maps
\* a JavaScript object used as a map from names to values: {} and obj[k] = v
EmptyMap == [n \in {} |-> 0]

Put(m, k, v) == [n \in (DOMAIN m) \cup {k} |-> IF n = k THEN v ELSE m[n]]

BoolStr(b) == IF b THEN "true" ELSE "false"

\* ------------------------------------------------------------- events
\* proxyEvent(type, arguments, src): the event forwarded to the collection
proxyEventNoPrefix(type, arguments, src) ==
    [type |-> type, arguments |-> <<src>> \o arguments]

proxyEventBug(type, arguments, src) ==
    [type |-> "control:" \o type, arguments |-> arguments \o <<src>>]

proxyEvent(type, arguments, src) ==
    [type |-> "control:" \o type, arguments |-> <<src>> \o arguments]

\* emit(type, ...arguments) on the collection: appended to the record of
\* what the collection's listeners receive
CollectionEmit(w, type, arguments) ==
    [w EXCEPT !.emitted = Append(@, [type |-> type, arguments |-> arguments])]

\* forward(control, this, proxyEvent): every subscription re-emits the event
RECURSIVE ForwardEvent(_, _, _, _, _)
ForwardEvent(w, c, type, arguments, n) ==
    IF n = 0 THEN w
    ELSE LET e == proxyEvent(type, arguments, c)
         IN  ForwardEvent(CollectionEmit(w, e.type, e.arguments), c, type, arguments, n - 1)

\* ------------------------------------------------------------- validate(): the gather
\* the accumulator a validate() call closes over (collectionIsValid, collectionValue)
CarriedAccumulator ==
    IF gathers = <<>> THEN [collectionIsValid |-> TRUE, collectionValue |-> EmptyMap]
    ELSE gathers[Len(gathers)].acc

NewAccumulatorBug == [collectionIsValid |-> FALSE, collectionValue |-> EmptyMap]

NewAccumulator == [collectionIsValid |-> TRUE, collectionValue |-> EmptyMap]

\* the `each` callback handed to waitForAll
EachCallbackNoAnd(acc, control, controlIsValid, controlValue) ==
    [collectionIsValid |-> controlIsValid,
     collectionValue |-> Put(acc.collectionValue, ctlName[control], controlValue)]

EachCallbackBug(acc, control, controlIsValid, controlValue) ==
    [collectionIsValid |-> acc.collectionIsValid \/ controlIsValid,
     collectionValue |-> Put(acc.collectionValue, ctlName[control], controlValue)]

EachCallback(acc, control, controlIsValid, controlValue) ==
    [collectionIsValid |-> acc.collectionIsValid /\ controlIsValid,
     collectionValue |-> Put(acc.collectionValue, ctlName[control], controlValue)]

\* the `done` callback handed to waitForAll
DoneCallbackShared(w, acc) ==
    LET shared == w.gathers[1].acc
    IN  CollectionEmit([w EXCEPT !.valid = BoolStr(shared.collectionIsValid)],
                       "validate", <<shared.collectionIsValid, shared.collectionValue>>)

DoneCallback(w, acc) ==
    CollectionEmit([w EXCEPT !.valid = BoolStr(acc.collectionIsValid)],
                   "validate", <<acc.collectionIsValid, acc.collectionValue>>)

\* the gather calls `done`; signals records what each call emitted
Fire(w, k) ==
    LET w2 == DoneCallback(w, w.gathers[k].acc)
    IN  [w2 EXCEPT !.gathers[k].signals = Append(@, w2.emitted[Len(w2.emitted)].arguments)]

\* the gather's one-shot listener on emitters[i] hears the control's event:
\* it calls `each` with the emitter first, counts, and calls `done` on the last
Hear(w, k, i, c, arguments) ==
    LET g == w.gathers[k]
        g2 == [g EXCEPT !.listening[i] = FALSE,
                        !.acc = EachCallback(g.acc, c, arguments[1], arguments[2]),
                        !.count = @ + 1,
                        !.heard = Append(@, <<c, arguments[1], arguments[2]>>)]
        w2 == [w EXCEPT !.gathers[k] = g2]
    IN  IF g2.count = Len(g.emitters) THEN Fire(w2, k) ELSE w2

\* every listener registered for the event on control c, in registration order
RECURSIVE HearAll(_, _, _, _, _)
HearAll(w, c, arguments, k, i) ==
    IF k > Len(w.gathers) THEN w
    ELSE IF i > Len(w.gathers[k].emitters) THEN HearAll(w, c, arguments, k + 1, 1)
    ELSE IF w.gathers[k].emitters[i] = c /\ w.gathers[k].listening[i]
         THEN HearAll(Hear(w, k, i, c, arguments), c, arguments, k, i + 1)
    ELSE HearAll(w, c, arguments, k, i + 1)

\* wait.waitForAll('validate', emitters, each, done, {passMeTheEmitter: true})
WaitForAll(w, emitters, acc) ==
    LET g == [emitters |-> emitters,
              listening |-> [i \in 1..Len(emitters) |-> TRUE],
              count |-> 0,
              acc |-> acc,
              heard |-> <<>>,
              signals |-> <<>>]
        w2 == [w EXCEPT !.gathers = Append(@, g)]
    IN  IF Len(emitters) = 0 THEN Fire(w2, Len(w2.gathers)) ELSE w2

\* ------------------------------------------------------------- controls
\* a control emits 'validate' (isValid, value): its own validity is updated, the
\* forward subscriptions and the gathers' listeners receive the event
ControlEmitValidate(w, c, controlIsValid, fwdFirst) ==
    LET arguments == <<controlIsValid, ctlValue[c]>>
        w1 == [w EXCEPT !.ctlValid[c] = controlIsValid]
    IN  IF fwdFirst
        THEN HearAll(ForwardEvent(w1, c, "validate", arguments, fwd[c]), c, arguments, 1, 1)
        ELSE ForwardEvent(HearAll(w1, c, arguments, 1, 1), c, "validate", arguments, fwd[c])

\* control.validate(): a control in DOMAIN sync completes inside the call with
\* validity sync[c], any other control completes later
ControlValidate(w, c, sync, fwdFirst) ==
    LET w1 == [w EXCEPT !.called = Append(@, c)]
    IN  IF c \in DOMAIN sync
        THEN ControlEmitValidate(w1, c, sync[c], fwdFirst)
        ELSE [w1 EXCEPT !.ctlCalls[c] = @ + 1]

\* the loop of validate() over this.controls
RECURSIVE ScatterWaits(_, _, _, _)
ScatterWaits(w, i, sync, fwdFirst) ==
    IF i > Len(controls) THEN w
    ELSE IF controls[i] \in DOMAIN sync
         THEN ScatterWaits(ControlValidate(w, controls[i], sync, fwdFirst), i + 1, sync, fwdFirst)
    ELSE ControlValidate(w, controls[i], sync, fwdFirst)

RECURSIVE Scatter(_, _, _, _)
Scatter(w, i, sync, fwdFirst) ==
    IF i > Len(controls) THEN w
    ELSE Scatter(ControlValidate(w, controls[i], sync, fwdFirst), i + 1, sync, fwdFirst)

\* the ways the member controls may complete inside validate()
Members == {controls[i] : i \in 1..Len(controls)}

SyncChoices == UNION {[S -> BOOLEAN] : S \in SUBSET Members}

\* the state a handler that emits starts from
\* a gather that has fired has no listener left: nothing reaches it again
Listening(gs) == SelectSeq(gs, LAMBDA g : \E i \in 1..Len(g.listening) : g.listening[i])

World ==
    [gathers |-> gathers, valid |-> valid, emitted |-> <<>>,
     ctlValid |-> ctlValid, ctlCalls |-> ctlCalls, called |-> <<>>]

\* validate(): register the gather on this.controls, then call validate() on
\* every control; return this
ValidateEarlyEmit(w, sync, fwdFirst) ==
    LET w2 == Scatter(WaitForAll(w, controls, NewAccumulator), 1, sync, fwdFirst)
        k == Len(w2.gathers)
    IN  IF w2.gathers[k].signals = <<>> THEN Fire(w2, k) ELSE w2

ValidateScatterFirst(w, sync, fwdFirst) ==
    WaitForAll(Scatter(w, 1, sync, fwdFirst), controls, NewAccumulator)

ValidateBody(w, sync, fwdFirst) ==
    Scatter(WaitForAll(w, controls, NewAccumulator), 1, sync, fwdFirst)

SetWorld(w) ==
    /\ gathers' = w.gathers
    /\ valid' = w.valid
    /\ emitted' = w.emitted
    /\ ctlValid' = w.ctlValid
    /\ ctlCalls' = w.ctlCalls


\* ------------------------------------------------------------- reference sequence
RefPushTail(s, c) == s \o <<c>>

RefPushHead(s, c) == <<c>> \o s

RECURSIVE RefDeleteFirst(_, _)
RefDeleteFirst(s, c) ==
    IF s = <<>> THEN <<>>
    ELSE IF Head(s) = c THEN Tail(s)
    ELSE <<Head(s)>> \o RefDeleteFirst(Tail(s), c)

\* ------------------------------------------------------------- value aggregation
\* getValue(): the loop over this.controls from index i on
RECURSIVE GetValueLoopBug(_, _, _)
GetValueLoopBug(s, i, value) ==
    IF i > Len(s) THEN value
    ELSE IF ctlName[s[i]] \in DOMAIN value THEN GetValueLoopBug(s, i + 1, value)
    ELSE GetValueLoopBug(s, i + 1, Put(value, ctlName[s[i]], ctlValue[s[i]]))

RECURSIVE GetValueLoop(_, _, _)
GetValueLoop(s, i, value) ==
    IF i > Len(s) THEN value
    ELSE GetValueLoop(s, i + 1, Put(value, ctlName[s[i]], ctlValue[s[i]]))

getValue == GetValueLoop(controls, 1, EmptyMap)

\* setValue(value): the loop over this.controls; cv is every control's value
SetValueLoopBug(s, i, value, cv) ==
    LET hits == {j \in i..Len(s) : ctlName[s[j]] \in DOMAIN value}
    IN  IF hits = {} THEN cv
        ELSE LET j == CHOOSE h \in hits : \A h2 \in hits : h <= h2
             IN  [cv EXCEPT ![s[j]] = value[ctlName[s[j]]]]

RECURSIVE SetValueLoop(_, _, _, _)
SetValueLoop(s, i, value, cv) ==
    IF i > Len(s) THEN cv
    ELSE IF ctlName[s[i]] \in DOMAIN value
         THEN SetValueLoop(s, i + 1, value, [cv EXCEPT ![s[i]] = value[ctlName[s[i]]]])
    ELSE SetValueLoop(s, i + 1, value, cv)

\* isValid(): the loop over this.controls
RECURSIVE IsValidLoopBug(_, _, _)
IsValidLoopBug(s, i, v) ==
    IF i > Len(s) THEN v
    ELSE IsValidLoopBug(s, i + 1, ctlValid[s[i]])

RECURSIVE IsValidLoop(_, _, _)
IsValidLoop(s, i, v) ==
    IF i > Len(s) THEN v
    ELSE IsValidLoop(s, i + 1, v /\ ctlValid[s[i]])

isValid == IsValidLoop(controls, 1, TRUE)

\* the objects setValue() is called with: any keys among the names and one
\* key, "z", that is no control's name
MapKeys == Names \cup {"z"}

ValueMaps == {m \in UNION {[K -> Values] : K \in SUBSET MapKeys} : "z" \in DOMAIN m => m["z"] = 1}

\* ------------------------------------------------------------- actions
ControlState == <<ctlName, ctlValue, ctlValid, ctlCalls>>

EventState == <<valid, gathers>>

\* new ControlCollection(options)
InitCollection ==
    /\ name = ""
    /\ controls = <<>>
    /\ valid = "undefined"
    /\ fwd = [c \in Controls |-> 0]
    /\ gathers = <<>>
    /\ emitted = <<>>
    /\ pc = "idle"
    /\ last = [op |-> "new", arg |-> 0]
    /\ ref = <<>>
    /\ ctlCalls = [c \in Controls |-> 0]

prepend(c) ==
    /\ pc = "idle"
    /\ Len(controls) < MaxLen
    /\ fwd[c] < MaxFwd
    /\ controls' = Unshift(controls, c)
    /\ fwd' = [fwd EXCEPT ![c] = @ + 1]
    /\ ref' = RefPushHead(ref, c)
    /\ last' = [op |-> "prepend", arg |-> c]
    /\ emitted' = <<>>
    /\ UNCHANGED <<name, pc, ControlState, EventState>>

append(c) ==
    /\ pc = "idle"
    /\ Len(controls) < MaxLen
    /\ fwd[c] < MaxFwd
    /\ controls' = Push(controls, c)
    /\ fwd' = [fwd EXCEPT ![c] = @ + 1]
    /\ ref' = RefPushTail(ref, c)
    /\ last' = [op |-> "append", arg |-> c]
    /\ emitted' = <<>>
    /\ UNCHANGED <<name, pc, ControlState, EventState>>

remove(c) ==
    /\ pc = "idle"
    /\ controls' = Removed(controls, c)
    /\ ref' = RefDeleteFirst(ref, c)
    /\ last' = [op |-> "remove", arg |-> c]
    /\ emitted' = <<>>
    /\ UNCHANGED <<name, pc, fwd, ControlState, EventState>>

\* removeAll(): entry, one iteration of the while loop, and return
RemoveAllCall ==
    /\ pc = "idle"
    /\ pc' = "removeAll"
    /\ last' = [op |-> "removeAll", arg |-> controls]
    /\ emitted' = <<>>
    /\ UNCHANGED <<name, controls, ref, fwd, ControlState, EventState>>

RemoveAllIterate ==
    /\ pc = "removeAll"
    /\ Len(controls) > 0
    /\ controls' = Removed(controls, controls[1])
    /\ ref' = RefDeleteFirst(ref, ref[1])
    /\ emitted' = <<>>
    /\ UNCHANGED <<name, pc, last, fwd, ControlState, EventState>>

RemoveAllReturn ==
    /\ pc = "removeAll"
    /\ ~(Len(controls) > 0)
    /\ pc' = "idle"
    /\ last' = [op |-> "removeAll:return", arg |-> last.arg]
    /\ emitted' = <<>>
    /\ UNCHANGED <<name, controls, ref, fwd, ControlState, EventState>>

each ==
    /\ pc = "idle"
    /\ last' = [op |-> "each", arg |-> EachCalls]
    /\ emitted' = <<>>
    /\ UNCHANGED <<name, controls, ref, pc, fwd, ControlState, EventState>>

GetValueCall ==
    /\ pc = "idle"
    /\ last' = [op |-> "getValue", arg |-> getValue]
    /\ emitted' = <<>>
    /\ UNCHANGED <<name, controls, ref, pc, fwd, ControlState, EventState>>

setValue(value) ==
    /\ pc = "idle"
    /\ ctlValue' = SetValueLoop(controls, 1, value, ctlValue)
    /\ last' = [op |-> "setValue", arg |-> value]
    /\ emitted' = <<>>
    /\ UNCHANGED <<name, controls, ref, pc, fwd, ctlName, ctlValid, ctlCalls, EventState>>

IsValidCall ==
    /\ pc = "idle"
    /\ last' = [op |-> "isValid", arg |-> isValid]
    /\ emitted' = <<>>
    /\ UNCHANGED <<name, controls, ref, pc, fwd, ControlState, EventState>>

\* validate(): register the gather, then call validate() on every control
validate(sync, fwdFirst) ==
    /\ pc = "idle"
    /\ Len(Listening(gathers)) < MaxCycles
    /\ \A c \in Controls : ctlCalls[c] < MaxCycles
    /\ Len(controls) <= MaxAggLen
    /\ LET w == ValidateBody([World EXCEPT !.gathers = Listening(gathers)], sync, fwdFirst)
       IN  /\ SetWorld(w)
           /\ last' = [op |-> "validate", arg |-> Len(controls),
                       called |-> w.called, returned |-> "this"]
    /\ UNCHANGED <<name, controls, ref, pc, fwd, ctlName, ctlValue>>

\* a control answers a validate() call: it emits 'validate'
ControlComplete(c, controlIsValid, fwdFirst) ==
    /\ pc = "idle"
    /\ ctlCalls[c] > 0
    /\ SetWorld(ControlEmitValidate([World EXCEPT !.ctlCalls[c] = @ - 1], c, controlIsValid, fwdFirst))
    /\ last' = [op |-> "control:emit", arg |-> c]
    /\ UNCHANGED <<name, controls, ref, pc, fwd, ctlName, ctlValue>>

\* a call that reads and changes nothing: `op` and <<input, result>> are recorded
ReadCall(op, input, result) ==
    /\ pc = "idle"
    /\ last' = [op |-> op, arg |-> <<input, result>>]
    /\ emitted' = <<>>
    /\ UNCHANGED <<name, controls, ref, pc, fwd, ControlState, EventState>>

CountCall == ReadCall("count", 0, count)

ContainsCall(c) == ReadCall("contains", c, contains(c))

AtCall(index) == ReadCall("at", index, at(index))

FirstCall == ReadCall("first", 0, first)

LastCall == ReadCall("last", 0, lastControl)

IndexOfCall(c) == ReadCall("indexOf", c, indexOf(c))

NamedCall(n) == ReadCall("named", n, named(n))

\* a control emits an event of a type other than 'validate'
ControlEmit(c, type, arguments) ==
    /\ pc = "idle"
    /\ SetWorld(ForwardEvent(World, c, type, arguments, fwd[c]))
    /\ last' = [op |-> "emit", arg |-> <<c, type, arguments>>]
    /\ UNCHANGED <<name, controls, ref, pc, fwd, ctlName, ctlValue>>

\* clear(): control.clear() on every control in order; a cleared control has
\* no value and has not passed validation
RECURSIVE ClearLoop(_, _, _)
ClearLoop(s, i, cs) ==
    IF i > Len(s) THEN cs
    ELSE ClearLoop(s, i + 1, [value |-> [cs.value EXCEPT ![s[i]] = Undefined],
                              valid |-> [cs.valid EXCEPT ![s[i]] = FALSE],
                              called |-> Append(cs.called, s[i])])

clearResetsValid ==
    /\ pc = "idle"
    /\ LET cs == ClearLoop(controls, 1, [value |-> ctlValue, valid |-> ctlValid, called |-> <<>>])
       IN  /\ ctlValue' = cs.value
           /\ ctlValid' = cs.valid
           /\ last' = [op |-> "clear", arg |-> cs.called]
    /\ emitted' = <<>>
    /\ valid' = "undefined"
    /\ UNCHANGED <<name, controls, ref, pc, fwd, ctlName, ctlCalls, gathers>>

clear ==
    /\ pc = "idle"
    /\ LET cs == ClearLoop(controls, 1, [value |-> ctlValue, valid |-> ctlValid, called |-> <<>>])
       IN  /\ ctlValue' = cs.value
           /\ ctlValid' = cs.valid
           /\ last' = [op |-> "clear", arg |-> cs.called]
    /\ emitted' = <<>>
    /\ UNCHANGED <<name, controls, ref, pc, fwd, ctlName, ctlCalls, EventState>>

\* focus(): this.first().focus(); on an empty collection first() is undefined
\* and the call throws a TypeError
focusShifts ==
    /\ pc = "idle"
    /\ last' = [op |-> "focus", arg |-> IF first = Undefined THEN "TypeError" ELSE "focused"]
    /\ emitted' = <<>>
    /\ controls' = IF controls = <<>> THEN controls ELSE Tail(controls)
    /\ UNCHANGED <<name, ref, pc, fwd, ControlState, EventState>>

focus ==
    /\ pc = "idle"
    /\ last' = [op |-> "focus", arg |-> IF first = Undefined THEN "TypeError" ELSE "focused"]
    /\ emitted' = <<>>
    /\ UNCHANGED <<name, controls, ref, pc, fwd, ControlState, EventState>>

\* ------------------------------------------------------------- specifications
\* list management
InitList ==
    /\ InitCollection
    /\ ctlName = [c \in Controls |-> IF c % 2 = 1 THEN "a" ELSE "b"]
    /\ ctlValue = [c \in Controls |-> IF c < MaxValue THEN c ELSE MaxValue]
    /\ ctlValid = [c \in Controls |-> TRUE]

NextList ==
    \/ \E c \in Controls : prepend(c)
    \/ \E c \in Controls : append(c)
    \/ \E c \in Controls : remove(c)
    \/ RemoveAllCall
    \/ RemoveAllIterate
    \/ RemoveAllReturn
    \/ each

SpecList == InitList /\ [][NextList]_vars

FairSpecList == SpecList /\ WF_vars(RemoveAllIterate) /\ WF_vars(RemoveAllReturn)


\* ------------------------------------------------------------- list management claims
\* C5: after any sequence of append, prepend and remove from the empty
\* collection, count() is the length of the reference sequence built by
\* push-at-tail, push-at-head and delete-first-occurrence, and at(i) is its
\* i-th element for every 0 <= i < count().
C5_CountAndAtFollowReference ==
    /\ count = Len(ref)
    /\ \A i \in 0..(count - 1) : at(i) = ref[i + 1]

\* a removal has left two different controls behind
C5_Witness ==
    /\ last.op = "remove"
    /\ fwd[last.arg] > 0
    /\ count = 2
    /\ at(0) # at(1)

\* positions of c in s
Occurrences(s, c) == {i \in 1..Len(s) : s[i] = c}

FirstOccurrence(s, c) == CHOOSE i \in Occurrences(s, c) : \A j \in Occurrences(s, c) : i <= j

\* C6: remove(c) deletes exactly the first occurrence of c and keeps every
\* other element, later occurrences of c included, in its relative order;
\* when c is not in the collection the control sequence is unchanged.
C6_RemoveFirstOccurrenceOnly ==
    [][\A c \in Controls :
        remove(c) =>
            IF Occurrences(controls, c) = {}
            THEN controls' = controls
            ELSE LET k == FirstOccurrence(controls, c)
                 IN  /\ Len(controls') = Len(controls) - 1
                     /\ \A i \in 1..(k - 1) : controls'[i] = controls[i]
                     /\ \A i \in k..(Len(controls) - 1) : controls'[i] = controls[i + 1]]_vars

\* remove(c) has acted on a list holding c more than once and another control
C6_Witness ==
    /\ last.op = "remove"
    /\ Occurrences(controls, last.arg) # {}
    /\ \E i \in 1..Len(controls) : controls[i] # last.arg

\* C7: removeAll() terminates for every content of the collection, the same
\* control held more than once included; afterwards count() is 0 and each()
\* invokes its callback zero times.
C7_RemoveAllTerminatesEmpty ==
    (pc = "removeAll") ~>
        (pc = "idle" /\ last.op = "removeAll:return" /\ count = 0 /\ Len(EachCalls) = 0)

\* removeAll() has returned from a collection that held one control twice
C7_Witness ==
    /\ last.op = "removeAll:return"
    /\ \E i, j \in 1..Len(last.arg) : i < j /\ last.arg[i] = last.arg[j]
    /\ count = 0


\* value aggregation
InitValue ==
    /\ InitCollection
    /\ ctlName = [c \in Controls |-> IF c % 2 = 1 THEN "a" ELSE "b"]
    /\ ctlValue = [c \in Controls |-> 1]
    /\ ctlValid = [c \in Controls |-> TRUE]

NextValue ==
    \/ (Len(controls) < MaxAggLen /\ \E c \in Controls : append(c))
    \/ \E value \in ValueMaps : setValue(value)
    \/ GetValueCall

SpecValue == InitValue /\ [][NextValue]_vars

\* ------------------------------------------------------------- value aggregation claims
MemberNames == {ctlName[controls[i]] : i \in 1..Len(controls)}

\* C8: after setValue(m), getValue() has m's value for every control name
\* that is in the collection and in m, and the prior value for every control
\* whose name is not in m; keys of m that are no control's name change
\* nothing and do not appear in getValue().
C8_SetValueThenGetValue ==
    [][(last'.op = "setValue" /\ setValue(last'.arg)) =>
          LET m == last'.arg
          IN  /\ DOMAIN getValue' = DOMAIN getValue
              /\ DOMAIN getValue' = MemberNames
              /\ \A n \in DOMAIN getValue' :
                     getValue'[n] = IF n \in DOMAIN m THEN m[n] ELSE getValue[n]
              /\ \A c \in Controls :
                     (ctlName[c] \notin DOMAIN m \/ Occurrences(controls, c) = {})
                         => ctlValue'[c] = ctlValue[c]]_vars

\* setValue(m) has changed one member, left another alone, and m had a key
\* that is no control's name
C8_Witness ==
    /\ last.op = "setValue"
    /\ "z" \in DOMAIN last.arg
    /\ \E i, j \in 1..Len(controls) :
           /\ ctlName[controls[i]] \in DOMAIN last.arg
           /\ ctlName[controls[j]] \notin DOMAIN last.arg
           /\ getValue[ctlName[controls[i]]] = last.arg[ctlName[controls[i]]]
           /\ getValue[ctlName[controls[i]]] # getValue[ctlName[controls[j]]]

\* C9: getValue() has exactly the member controls' names as keys, and under
\* a name that several members share it has the value of the one latest in
\* collection order.
C9_GetValueKeysAndLastWins ==
    /\ DOMAIN getValue = MemberNames
    /\ \A n \in MemberNames :
           LET at_n == {i \in 1..Len(controls) : ctlName[controls[i]] = n}
               latest == CHOOSE i \in at_n : \A j \in at_n : j <= i
           IN  getValue[n] = ctlValue[controls[latest]]

\* getValue() was called with two members of one name and different values
C9_Witness ==
    /\ last.op = "getValue"
    /\ \E i, j \in 1..Len(controls) :
           /\ i < j
           /\ ctlName[controls[i]] = ctlName[controls[j]]
           /\ ctlValue[controls[i]] # ctlValue[controls[j]]
           /\ last.arg[ctlName[controls[i]]] = ctlValue[controls[j]]


\* the validate() protocol
InitValidate ==
    /\ InitCollection
    /\ ctlName = [c \in Controls |-> IF c % 2 = 1 THEN "a" ELSE "b"]
    /\ ctlValue = [c \in Controls |-> IF c < MaxValue THEN c ELSE MaxValue]
    /\ ctlValid = [c \in Controls |-> TRUE]

\* validate() is not called again while a cycle is still gathering
NextValidate ==
    \/ (Len(controls) < MaxAggLen /\ \E c \in Controls : append(c))
    \/ (Listening(gathers) = <<>>
            /\ \E sync \in SyncChoices, fwdFirst \in BOOLEAN : validate(sync, fwdFirst))
    \/ \E c \in Controls, controlIsValid \in BOOLEAN, fwdFirst \in BOOLEAN :
           ControlComplete(c, controlIsValid, fwdFirst)
    \/ IsValidCall

SpecValidate == InitValidate /\ [][NextValidate]_vars


\* ------------------------------------------------------------- validate() claims
\* a completion the gather heard: <<control, isValid, value>>
AllHeardValid(g) == \A i \in 1..Len(g.heard) : g.heard[i][2]

EmitterNames(g) == {ctlName[g.emitters[i]] : i \in 1..Len(g.emitters)}

\* the last completion the gather heard from a control named n
LastHeardNamed(g, n) ==
    LET at_n == {i \in 1..Len(g.heard) : ctlName[g.heard[i][1]] = n}
    IN  g.heard[CHOOSE i \in at_n : \A j \in at_n : j <= i]

\* one signal, after all N completions and not before, with the AND of the
\* reported validities, cached in this.valid
SignalOnceAfterAll(g) ==
    /\ Len(g.signals) <= 1
    /\ (Len(g.signals) = 1) <=> (Len(g.heard) = Len(g.emitters))
    /\ Len(g.signals) = 1 =>
           /\ g.signals[1][1] = AllHeardValid(g)
           /\ valid = BoolStr(AllHeardValid(g))
           /\ DOMAIN g.signals[1][2] = EmitterNames(g)

\* C1 as stated: for a validate() call on N >= 1 controls that all complete
\* once, the collection emits 'validate' once, only after all N completions,
\* with the AND of the N validities and a map from each control's name to the
\* value that control reported; this.valid is that AND.
C1_SignalMapsEveryControlsValue ==
    \A k \in 1..Len(gathers) :
        LET g == gathers[k]
        IN  Len(g.emitters) >= 1 =>
                /\ SignalOnceAfterAll(g)
                /\ Len(g.signals) = 1 =>
                       \A i \in 1..Len(g.heard) :
                           g.signals[1][2][ctlName[g.heard[i][1]]] = g.heard[i][3]

\* C1 amended: the map has, under each control name, the value reported by
\* the completion observed last among the controls of that name.
C1_SignalMapsLastValuePerName ==
    \A k \in 1..Len(gathers) :
        LET g == gathers[k]
        IN  Len(g.emitters) >= 1 =>
                /\ SignalOnceAfterAll(g)
                /\ Len(g.signals) = 1 =>
                       \A n \in EmitterNames(g) :
                           g.signals[1][2][n] = LastHeardNamed(g, n)[3]

\* a cycle over two controls of one name and different values has fired, one
\* control valid and one not
C1_Witness ==
    \E k \in 1..Len(gathers) :
        LET g == gathers[k]
        IN  /\ Len(g.signals) = 1
            /\ Len(g.heard) = 2
            /\ ctlName[g.heard[1][1]] = ctlName[g.heard[2][1]]
            /\ g.heard[1][3] # g.heard[2][3]
            /\ g.heard[1][2] # g.heard[2][2]
            /\ emitted # <<>>

ValidateSignal(v, value) == [type |-> "validate", arguments |-> <<v, value>>]

\* C2: validate() on an empty collection emits the collection's 'validate'
\* within the call, carrying true and an empty map.
C2_EmptyValidateEmitsAtOnce ==
    (last.op = "validate" /\ last.arg = 0) => emitted = <<ValidateSignal(TRUE, EmptyMap)>>

C2_Witness ==
    /\ last.op = "validate"
    /\ last.arg = 0
    /\ Len(emitted) = 1
    /\ valid = "true"

\* the accumulator after the completions hs[p[1]], hs[p[2]], ... are heard
RECURSIVE Accumulate(_, _, _, _)
Accumulate(acc, hs, p, i) ==
    IF i > Len(hs) THEN acc
    ELSE Accumulate(EachCallback(acc, hs[p[i]][1], hs[p[i]][2], hs[p[i]][3]), hs, p, i + 1)

ArrivalOrders(n) == {p \in [1..n -> 1..n] : \A i, j \in 1..n : p[i] = p[j] => i = j}

DistinctNames(g) ==
    \A i, j \in 1..Len(g.emitters) : i # j => ctlName[g.emitters[i]] # ctlName[g.emitters[j]]

\* C3: with distinct control names and fixed per-control results, the
\* aggregate a cycle emits is the same for every order of arrival of the
\* completions.
C3_AggregateIsOrderIndependent ==
    \A k \in 1..Len(gathers) :
        LET g == gathers[k]
        IN  (Len(g.signals) = 1 /\ DistinctNames(g)) =>
                \A p \in ArrivalOrders(Len(g.heard)) :
                    LET acc == Accumulate(NewAccumulator, g.heard, p, 1)
                    IN  g.signals[1] = <<acc.collectionIsValid, acc.collectionValue>>

\* a cycle over two controls of different names has fired; the completions
\* arrived in the reverse of collection order, the first one invalid
C3_Witness ==
    \E k \in 1..Len(gathers) :
        LET g == gathers[k]
        IN  /\ Len(g.signals) = 1
            /\ Len(g.emitters) = 2
            /\ DistinctNames(g)
            /\ g.heard[1][1] = g.emitters[2]
            /\ ~g.heard[1][2]
            /\ g.heard[2][2]

StillWaiting(g) == \E i \in 1..Len(g.listening) : g.listening[i]

HasValidateSignal(es) == \E i \in 1..Len(es) : es[i].type = "validate"

\* C4: while a member control of a cycle has not emitted its completion, the
\* collection does not emit 'validate' for the cycle and this.valid is not
\* updated, however many other controls complete.
C4_NoSignalWhileAControlIsSilent ==
    [][\A k \in 1..Len(gathers') :
          StillWaiting(gathers'[k]) =>
              /\ gathers'[k].signals = <<>>
              /\ ~HasValidateSignal(emitted')
              /\ valid' = valid]_vars

\* one control of a cycle over two has completed, the other has not
C4_Witness ==
    /\ last.op = "control:emit"
    /\ \E k \in 1..Len(gathers) :
           /\ StillWaiting(gathers[k])
           /\ Len(gathers[k].heard) >= 1
           /\ Len(gathers[k].emitters) >= 2

\* C10: isValid() is the AND of isValid() over the member controls, true for
\* an empty collection; it calls validate() on no control and neither reads
\* nor changes this.valid.
C10_IsValidIsAndOfControls ==
    [][IsValidCall =>
          /\ last'.arg = (\A i \in 1..Len(controls) : ctlValid[controls[i]])
          /\ (controls = <<>> => last'.arg = TRUE)
          /\ UNCHANGED <<valid, ctlCalls, gathers, ctlValid>>]_vars

\* isValid() returned false while this.valid was true
C10_Witness ==
    /\ last.op = "isValid"
    /\ last.arg = FALSE
    /\ valid = "true"
    /\ Len(controls) >= 2
    /\ \E i \in 1..Len(controls) : ctlValid[controls[i]]


\* ------------------------------------------------------------- read accessors
\* the indexes at() is called with: in range, negative and past the end
Indices == -1..MaxAggLen

NextAccess ==
    \/ (Len(controls) < MaxAggLen /\ \E c \in Controls : append(c))
    \/ (Len(controls) < MaxAggLen /\ \E c \in Controls : prepend(c))
    \/ CountCall
    \/ \E c \in Controls : ContainsCall(c)
    \/ \E index \in Indices : AtCall(index)
    \/ FirstCall
    \/ LastCall
    \/ \E c \in Controls : IndexOfCall(c)
    \/ \E n \in MapKeys : NamedCall(n)

SpecAccess == InitList /\ [][NextAccess]_vars

\* positions of the members named n
NamedAt(n) == {i \in 1..Len(controls) : ctlName[controls[i]] = n}

\* C11: at(i) with i outside 0..count()-1, first() and last() on an empty
\* collection, and named(n) when no member is named n return the absent value
\* (undefined, undefined, undefined, null) and change nothing; named(n)
\* otherwise returns the first member in collection order named n.
C11_AbsentIsASentinel ==
    [][/\ \A index \in Indices :
              AtCall(index) =>
                  /\ controls' = controls
                  /\ index \notin 0..(count - 1) => last'.arg[2] = Undefined
                  /\ index \in 0..(count - 1) => last'.arg[2] = controls[index + 1]
       /\ (FirstCall /\ controls = <<>>) => (controls' = controls /\ last'.arg[2] = Undefined)
       /\ (LastCall /\ controls = <<>>) => (controls' = controls /\ last'.arg[2] = Undefined)
       /\ \A n \in MapKeys :
              NamedCall(n) =>
                  /\ controls' = controls
                  /\ NamedAt(n) = {} => last'.arg[2] = Null
                  /\ NamedAt(n) # {} =>
                         last'.arg[2] = controls[CHOOSE i \in NamedAt(n) : \A j \in NamedAt(n) : i <= j]]_vars

\* named(n) returned the earlier of two different members named n
C11_Witness ==
    /\ last.op = "named"
    /\ Len(controls) = 2
    /\ controls[1] # controls[2]
    /\ ctlName[controls[1]] = last.arg[1]
    /\ ctlName[controls[2]] = last.arg[1]
    /\ last.arg[2] = controls[1]


\* ------------------------------------------------------------- event forwarding
\* the events a control emits besides 'validate', and their arguments
EventTypes == {"change", "blur"}

EventArguments == {<<>>, <<1>>, <<1, MaxValue>>, <<MaxValue, 1>>}

NextForward ==
    \/ (Len(controls) < MaxAggLen /\ \E c \in Controls : append(c))
    \/ (Len(controls) < MaxAggLen /\ \E c \in Controls : prepend(c))
    \/ \E c \in Controls, type \in EventTypes, arguments \in EventArguments :
           ControlEmit(c, type, arguments)

SpecForward == InitList /\ [][NextForward]_vars

\* C12: every event of type T emitted by a control that was added with
\* append or prepend is re-emitted on the collection with type 'control:' + T,
\* the control as first argument and then the original arguments in order.
C12_AddedControlsEventsAreForwarded ==
    [][(last'.op = "emit" /\ ControlEmit(last'.arg[1], last'.arg[2], last'.arg[3])
            /\ fwd[last'.arg[1]] > 0) =>
          LET c == last'.arg[1]
              type == last'.arg[2]
              arguments == last'.arg[3]
          IN  /\ Len(emitted') >= 1
              /\ \A i \in 1..Len(emitted') :
                     /\ emitted'[i].type = "control:" \o type
                     /\ Len(emitted'[i].arguments) = Len(arguments) + 1
                     /\ emitted'[i].arguments[1] = c
                     /\ \A j \in 1..Len(arguments) :
                            emitted'[i].arguments[j + 1] = arguments[j]]_vars

\* a control added once by prepend emitted 'change' with two different
\* arguments: the collection emitted one event
C12_Witness ==
    /\ last.op = "emit"
    /\ last.arg[2] = "change"
    /\ Len(last.arg[3]) = 2
    /\ last.arg[3][1] # last.arg[3][2]
    /\ fwd[last.arg[1]] = 1
    /\ Len(controls) = 2
    /\ controls[1] = last.arg[1]
    /\ Len(emitted) = 1


InitCycles ==
    /\ name = ""
    /\ controls = [i \in 1..MaxAggLen |-> i]
    /\ valid = "undefined"
    /\ fwd = [c \in Controls |-> IF c <= MaxAggLen THEN 1 ELSE 0]
    /\ gathers = <<>>
    /\ emitted = <<>>
    /\ pc = "idle"
    /\ last = [op |-> "append", arg |-> MaxAggLen]
    /\ ref = controls
    /\ ctlCalls = [c \in Controls |-> 0]
    /\ ctlName = [c \in Controls |-> IF c % 2 = 1 THEN "a" ELSE "b"]
    /\ ctlValue = [c \in Controls |-> IF c < MaxValue THEN c ELSE MaxValue]
    /\ ctlValid = [c \in Controls |-> TRUE]

\* cycles one after the other over a list that shrinks between them
NextCycles ==
    \/ (Listening(gathers) = <<>> /\ \E c \in Controls : remove(c))
    \/ (Listening(gathers) = <<>>
            /\ \E sync \in SyncChoices, fwdFirst \in BOOLEAN : validate(sync, fwdFirst))
    \/ \E c \in Controls, controlIsValid \in BOOLEAN, fwdFirst \in BOOLEAN :
           ControlComplete(c, controlIsValid, fwdFirst)

SpecCycles == InitCycles /\ [][NextCycles]_vars

\* the accumulator that starts at (true, {}) and takes the completions hs in order
RECURSIVE FromFresh(_, _)
FromFresh(hs, i) ==
    IF i = 0 THEN [collectionIsValid |-> TRUE, collectionValue |-> EmptyMap]
    ELSE EachCallback(FromFresh(hs, i - 1), hs[i][1], hs[i][2], hs[i][3])

\* C14: a validate() cycle started after the previous cycle's barrier fired
\* starts from validity true and an empty map: its accumulator, and the
\* aggregate it emits, come from the completions of this cycle alone.
C14_CycleStartsFresh ==
    \A k \in 1..Len(gathers) :
        LET g == gathers[k]
            acc == FromFresh(g.heard, Len(g.heard))
        IN  /\ g.acc = acc
            /\ g.signals # <<>> =>
                   /\ g.signals = <<<<acc.collectionIsValid, acc.collectionValue>>>>
                   /\ g.signals[1][1] = AllHeardValid(g)
                   /\ DOMAIN g.signals[1][2] = {ctlName[g.heard[i][1]] : i \in 1..Len(g.heard)}

\* a cycle has emitted true and a map without name "b", after a control named
\* "b", removed since, had reported invalid to an earlier cycle
C14_Witness ==
    /\ last.op = "control:emit"
    /\ \E k \in 1..Len(gathers) :
           /\ Len(gathers[k].signals) = 1
           /\ gathers[k].signals[1][1] = TRUE
           /\ DOMAIN gathers[k].signals[1][2] = {"a"}
    /\ \E c \in Controls :
           /\ ctlName[c] = "b"
           /\ ~contains(c)
           /\ ~ctlValid[c]
           /\ ctlCalls[c] = 0


\* ------------------------------------------------------------- validate(): overlapping cycles
\* the collection after append(1), ..., append(MaxAggLen - 1)
InitOverlap ==
    /\ name = ""
    /\ controls = [i \in 1..(MaxAggLen - 1) |-> i]
    /\ valid = "undefined"
    /\ fwd = [c \in Controls |-> IF c <= MaxAggLen - 1 THEN 1 ELSE 0]
    /\ gathers = <<>>
    /\ emitted = <<>>
    /\ pc = "idle"
    /\ last = [op |-> "append", arg |-> MaxAggLen - 1]
    /\ ref = controls
    /\ ctlCalls = [c \in Controls |-> 0]
    /\ ctlName = [c \in Controls |-> IF c % 2 = 1 THEN "a" ELSE "b"]
    /\ ctlValue = [c \in Controls |-> IF c < MaxValue THEN c ELSE MaxValue]
    /\ ctlValid = [c \in Controls |-> TRUE]

\* the listeners of cycle g that a completion of control c reaches
ListeningTo(g, c) == {i \in 1..Len(g.emitters) : g.emitters[i] = c /\ g.listening[i]}

\* validate() is called again while one earlier cycle is still gathering; the
\* controls complete after the call, and the completions explored are those
\* some cycle is listening for
NextOverlap ==
    \/ (Len(controls) < MaxAggLen /\ \E c \in Controls : append(c))
    \/ (Len(Listening(gathers)) <= 1 /\ \E fwdFirst \in BOOLEAN : validate(EmptyMap, fwdFirst))
    \/ \E c \in Controls, controlIsValid \in BOOLEAN, fwdFirst \in BOOLEAN :
           /\ \E k \in 1..Len(gathers) : ListeningTo(gathers[k], c) # {}
           /\ ControlComplete(c, controlIsValid, fwdFirst)

SpecOverlap == InitOverlap /\ [][NextOverlap]_vars

\* the cycle's accumulator is the fold of what the cycle itself heard, and
\* what it emitted is that accumulator
OwnAccumulator(g) ==
    LET acc == FromFresh(g.heard, Len(g.heard))
    IN  /\ g.acc = acc
        /\ g.signals # <<>> => g.signals = <<<<acc.collectionIsValid, acc.collectionValue>>>>

\* C15 as stated: while two cycles are gathering, a control's completion is ANDed
\* and stored at most once into one cycle's accumulator, and every cycle's
\* aggregate comes from its own accumulator.
C15_CompletionTakenOncePerCycle ==
    [][(last'.op = "control:emit" /\ Len(Listening(gathers)) >= 2) =>
          \A k \in 1..Len(gathers) :
              /\ Len(gathers'[k].heard) <= Len(gathers[k].heard) + 1
              /\ OwnAccumulator(gathers'[k])]_vars

\* C15 amended: while two cycles are gathering, every cycle's aggregate comes
\* from its own accumulator, and a control's completion is ANDed and stored into a cycle's
\* accumulator once for every listener the cycle still has on that control,
\* one per occurrence of the control in the cycle's list, hence at most once
\* when the list holds no control twice.
C15_CompletionTakenOncePerListener ==
    [][(last'.op = "control:emit" /\ Len(Listening(gathers)) >= 2) =>
          \A k \in 1..Len(gathers) :
              LET g == gathers[k]
                  n == Cardinality(ListeningTo(g, last'.arg))
              IN  /\ Len(gathers'[k].heard) = Len(g.heard) + n
                  /\ n <= Cardinality(Occurrences(g.emitters, last'.arg))
                  /\ \A i \in 1..n : gathers'[k].heard[Len(g.heard) + i][1] = last'.arg
                  /\ ListeningTo(gathers'[k], last'.arg) = {}
                  /\ OwnAccumulator(gathers'[k])]_vars

\* one completion has been taken by two cycles over two different controls:
\* it fired the earlier cycle with false and left the later one true
C15_Witness ==
    /\ last.op = "control:emit"
    /\ Len(gathers) = 2
    /\ DistinctNames(gathers[1])
    /\ gathers[1].signals = <<<<FALSE, gathers[1].acc.collectionValue>>>>
    /\ StillWaiting(gathers[2])
    /\ gathers[2].acc.collectionIsValid
    /\ gathers[2].heard = <<<<last.arg, TRUE, ctlValue[last.arg]>>>>
    /\ gathers[1].heard[Len(gathers[1].heard)] = gathers[2].heard[1]


\* ------------------------------------------------------------- the whole collection
\* no cycle is gathering and no control.validate() call is unanswered
Quiet == Listening(gathers) = <<>> /\ \A c \in Controls : ctlCalls[c] = 0

\* no control's value has been changed by setValue() or clear()
ValuesUntouched == ctlValue = [c \in Controls |-> IF c < MaxValue THEN c ELSE MaxValue]

\* every operation of the collection, from the list 1, ..., MaxAggLen.  The
\* behaviours explored: a control is added once; the list changes and
\* validate() is called between cycles and before any value is changed; the
\* controls complete after validate() returns; the read accessors are called
\* before the first validate().
NextCollection ==
    \/ (Len(controls) < MaxAggLen /\ Quiet /\ ValuesUntouched
            /\ \E c \in Controls : fwd[c] = 0 /\ prepend(c))
    \/ (Len(controls) < MaxAggLen /\ Quiet /\ ValuesUntouched
            /\ \E c \in Controls : fwd[c] = 0 /\ append(c))
    \/ (Quiet /\ ValuesUntouched /\ \E c \in Controls : remove(c))
    \/ (Quiet /\ ValuesUntouched /\ RemoveAllCall)
    \/ RemoveAllIterate
    \/ RemoveAllReturn
    \/ (Quiet /\ setValue([n \in {"a"} |-> MaxValue]))
    \/ (Quiet /\ IsValidCall)
    \/ (Quiet /\ clear)
    \/ (Quiet /\ focus)
    \/ (Listening(gathers) = <<>> /\ ValuesUntouched
            /\ \E fwdFirst \in BOOLEAN : validate(EmptyMap, fwdFirst))
    \/ \E c \in Controls, controlIsValid \in BOOLEAN, fwdFirst \in BOOLEAN :
           ControlComplete(c, controlIsValid, fwdFirst)
    \/ (gathers = <<>> /\ ValuesUntouched /\ each)
    \/ (gathers = <<>> /\ ValuesUntouched /\ GetValueCall)
    \/ (gathers = <<>> /\ ValuesUntouched /\ CountCall)
    \/ (gathers = <<>> /\ ValuesUntouched /\ \E c \in Controls : ContainsCall(c))
    \/ (gathers = <<>> /\ ValuesUntouched /\ \E index \in Indices : AtCall(index))
    \/ (gathers = <<>> /\ ValuesUntouched /\ FirstCall)
    \/ (gathers = <<>> /\ ValuesUntouched /\ LastCall)
    \/ (gathers = <<>> /\ ValuesUntouched /\ \E c \in Controls : IndexOfCall(c))
    \/ (gathers = <<>> /\ ValuesUntouched /\ \E n \in MapKeys : NamedCall(n))

SpecCollection == InitCycles /\ [][NextCollection]_vars

\* the last 'validate' event among the events es
LastValidateSignal(es) ==
    es[CHOOSE i \in 1..Len(es) :
           /\ es[i].type = "validate"
           /\ \A j \in 1..Len(es) : es[j].type = "validate" => j <= i]

\* C16: this.valid changes only when a validate() cycle's barrier fires, and
\* then it is the validity that barrier emits; append, prepend, remove,
\* removeAll, setValue, clear, focus, isValid and a control's completion
\* that fires no barrier leave it unchanged.
C16_ValidChangesOnlyAtTheBarrier ==
    [][/\ HasValidateSignal(emitted') =>
              valid' = BoolStr(LastValidateSignal(emitted').arguments[1])
       /\ ~HasValidateSignal(emitted') => valid' = valid
       /\ last'.op \in {"append", "prepend", "remove", "removeAll", "removeAll:return",
                         "setValue", "clear", "focus", "isValid"} => valid' = valid
       /\ pc = "removeAll" => valid' = valid]_vars

\* clear() has left this.valid true over controls that are no longer valid
C16_Witness ==
    /\ last.op = "clear"
    /\ valid = "true"
    /\ Len(controls) >= 1
    /\ \A i \in 1..Len(controls) : ~ctlValid[controls[i]]

\* C17: this.controls is changed only by append, prepend, remove and
\* removeAll; getValue, setValue, isValid, clear, focus, each, validate, a
\* control's completion and the read accessors leave it unchanged, and
\* count() is its length.
C17_OnlyListOperationsChangeTheSequence ==
    /\ [](count = Len(controls))
    /\ [][/\ controls' # controls =>
                  (last'.op \in {"append", "prepend", "remove"} \/ pc = "removeAll")
          /\ last'.op \in {"getValue", "setValue", "isValid", "clear", "focus", "each",
                            "validate", "control:emit", "count", "contains", "at",
                            "first", "last", "indexOf", "named"} => controls' = controls]_vars

\* a whole validate() cycle over two controls has fired and the list is the
\* one the cycle started with
C17_Witness ==
    /\ last.op = "control:emit"
    /\ Len(controls) >= 2
    /\ \E k \in 1..Len(gathers) :
           /\ gathers[k].signals # <<>>
           /\ gathers[k].emitters = controls


\* ------------------------------------------------------------- validate(): synchronous completions
ValidateSignals(es) == {i \in 1..Len(es) : es[i].type = "validate"}

\* C18: when every member completes inside its own validate() call, no
\* completion is lost: the call's gather has heard every listener before
\* validate() returns and the collection has emitted one 'validate' for it.
C18_SynchronousCompletionsAreAllHeard ==
    [][(last'.op = "validate" /\ ctlCalls' = ctlCalls /\ Len(controls) >= 1) =>
          LET g == gathers'[Len(gathers')]
          IN  /\ g.emitters = controls
              /\ \A i \in 1..Len(g.listening) : ~g.listening[i]
              /\ Len(g.heard) = Len(controls)
              /\ \A i \in 1..Len(controls) : \E j \in 1..Len(g.heard) : g.heard[j][1] = controls[i]
              /\ Len(g.signals) = 1
              /\ Cardinality(ValidateSignals(emitted')) = 1
              /\ \A i \in ValidateSignals(emitted') : emitted'[i].arguments = g.signals[1]
              /\ g.signals[1][1] = AllHeardValid(g)
              /\ DOMAIN g.signals[1][2] = EmitterNames(g)]_vars

\* validate() has returned after two different controls completed inside
\* their validate() calls, one of them invalid: one 'validate' was emitted
C18_Witness ==
    /\ last.op = "validate"
    /\ Len(last.called) = 2
    /\ last.called[1] # last.called[2]
    /\ \A c \in Controls : ctlCalls[c] = 0
    /\ Len(gathers[Len(gathers)].heard) = 2
    /\ Cardinality(ValidateSignals(emitted)) = 1
    /\ valid = "false"


\* ------------------------------------------------------------- events of removed controls
NextRemoval ==
    \/ (Len(controls) < MaxAggLen /\ \E c \in Controls : append(c))
    \/ \E c \in Controls : remove(c)
    \/ RemoveAllCall
    \/ RemoveAllIterate
    \/ RemoveAllReturn
    \/ \E c \in Controls, type \in EventTypes : ControlEmit(c, type, <<1>>)

SpecRemoval == InitList /\ [][NextRemoval]_vars

ForwardedTypes == {"control:" \o type : type \in EventTypes \cup {"validate"}}

\* C19: the collection re-emits 'control:' events of its current members
\* only: no event of a control that remove() or removeAll() has left without
\* an occurrence in the collection is re-emitted.
C19_OnlyMembersAreForwarded ==
    \A i \in 1..Len(emitted) :
        emitted[i].type \in ForwardedTypes => contains(emitted[i].arguments[1])


\* ------------------------------------------------------------- the collection's 'validate' signal
RECURSIVE SignalCount(_, _)
SignalCount(gs, k) == IF k = 0 THEN 0 ELSE Len(gs[k].signals) + SignalCount(gs, k - 1)

\* the barriers that fired during the step: a validate() call keeps only
\* the gathers that have not fired
FiredInStep ==
    IF last'.op = "validate"
    THEN SignalCount(gathers', Len(gathers'))
    ELSE SignalCount(gathers', Len(gathers')) - SignalCount(gathers, Len(gathers))

\* C20: the collection emits 'validate' only when the barrier of a
\* validate() call fires, once per call at most; a control's own 'validate'
\* reaches the collection's listeners as 'control:validate' with the control
\* first, never as 'validate'.
C20_ValidateSignalComesFromTheBarrier ==
    [][/\ Cardinality(ValidateSignals(emitted')) = FiredInStep
       /\ \A k \in 1..Len(gathers') : Len(gathers'[k].signals) <= 1
       /\ last'.op = "validate" => Len(gathers') <= Len(Listening(gathers)) + 1
       /\ last'.op # "validate" => Len(gathers') = Len(gathers)
       /\ last'.op = "control:emit" =>
              /\ Len(emitted') = fwd[last'.arg] + FiredInStep
              /\ \A i \in 1..Len(emitted') :
                     \/ i \in ValidateSignals(emitted')
                     \/ /\ emitted'[i].type = "control:validate"
                        /\ emitted'[i].arguments[1] = last'.arg]_vars

\* a control's completion has fired the barrier: the collection emitted the
\* control's event as 'control:validate' and one 'validate'
C20_Witness ==
    /\ last.op = "control:emit"
    /\ Len(emitted) = 2
    /\ Cardinality(ValidateSignals(emitted)) = 1
    /\ \E i \in 1..2 : emitted[i].type = "control:validate" /\ emitted[i].arguments[1] = last.arg
    /\ Len(gathers[Len(gathers)].emitters) = 2

=============================================================================
